---- MODULE Spec2Model ----
(***************************************************************************)
(* Decision engine (Strategy, src/trading/trading_v4.py) and backtest      *)
(* simulator (run_single_game, src/trading/trading_v3_backtest.py).        *)
(*                                                                         *)
(* Number representation.  The program computes in Python floats; the     *)
(* model computes in integers:                                             *)
(*   - probabilities are in units of 1e-4 (0.5 is 5000);                   *)
(*   - market_price is in whole price points (0..100 scale); a gap or a    *)
(*     price difference is in units of 1e-4 price points;                  *)
(*   - capital and equity are in cents, so price * qty / 100.0 dollars is  *)
(*     price * qty cents, exactly;                                         *)
(*   - alpha and beta are in tenths, max_exposure_pct in percent;          *)
(*   - times are whole seconds; math.exp(-t/600) is tabulated.             *)
(* None is the empty tuple and a present optional value v is <<v>>.        *)
(*                                                                         *)
(* Besides the program's own state the module keeps observers: orders,     *)
(* path and did_reset describe the last call of on_game_event_update,      *)
(* event is the event it processed, pushed and history record a game,      *)
(* best_price is the highest market_price seen while the backtest position *)
(* has been long, and result holds the value a function or run_single_game *)
(* returned.                                                               *)
(***************************************************************************)
EXTENDS Integers, Sequences, FiniteSets, TLC

VARIABLES
  home_score, away_score, time_remaining, position, last_trade_time,
  market_price, recent_scoring_events,
  home_made_shots, home_attempts, away_made_shots, away_attempts,
  capital, max_fav_price, trades, equity_curve,
  orders, path, did_reset, event, history, pushed, n_calls, pc, result, best_price

vars == <<home_score, away_score, time_remaining, position, last_trade_time,
          market_price, recent_scoring_events,
          home_made_shots, home_attempts, away_made_shots, away_attempts,
          capital, max_fav_price, trades, equity_curve,
          orders, path, did_reset, event, history, pushed, n_calls, pc, result, best_price>>

(* ---------------------------------------------------------------------- *)
(* Bounds of the model                                                     *)
(* ---------------------------------------------------------------------- *)
(* number of game events delivered in one run *)
MaxEvents == 3

(* the recent_max_events argument of Strategy.__init__ (default 8), chosen *)
(* small so that the window overflows within MaxEvents events              *)
recent_max_events == 2

(* ---------------------------------------------------------------------- *)
(* Hyperparameters of Strategy.__init__ and constants of the code          *)
(* ---------------------------------------------------------------------- *)
alpha == 5
beta == 5
max_exposure_pct == 20
base_gap == 10000
min_gap == 5000
cooldown_seconds == 3
min_trade == 10
capital_start == 10000000
trailing_stop_pct == 10

None == << >>

Max(a, b) == IF a >= b THEN a ELSE b
Min(a, b) == IF a <= b THEN a ELSE b
Abs(a) == IF a >= 0 THEN a ELSE -a

(* Python int(): truncation towards zero of the quotient n / d, d > 0 *)
IntDiv(n, d) == IF n >= 0 THEN n \div d ELSE -((-n) \div d)

(* ---------------------------------------------------------------------- *)
(* Inputs                                                                  *)
(* ---------------------------------------------------------------------- *)
IgnoredTypes == {"NOTHING", "START_PERIOD", "END_PERIOD", "SUBSTITUTION", "UNKNOWN"}

Times == {2400, 2398, 1200, 28}

ScorePairs == {<<0, 0>>, <<3, 1>>}

Prices == {0, 40, 50}

Kind(event_type, home_away, shot_type) ==
  [event_type |-> event_type, home_away |-> home_away, shot_type |-> shot_type]

Kinds ==
  { Kind("SCORE", "home", "TWO_POINT"), Kind("SCORE", "away", "THREE_POINT"),
    Kind("MISSED", "home", "None"), Kind("MISSED", "away", "None"),
    Kind("NOTHING", "None", "None"), Kind("TIMEOUT", "None", "None"),
    Kind("FOUL", "home", "None"), Kind("END_GAME", "None", "None"),
    Kind("VIDEO_REVIEW", "None", "None") }

MkEvent(k, sp, t) ==
  [event_type |-> k.event_type, home_away |-> k.home_away,
   shot_type |-> k.shot_type, home_score |-> sp[1], away_score |-> sp[2],
   time_seconds |-> t]

GameEvents ==
  { MkEvent(k, sp, t) : k \in Kinds, sp \in ScorePairs,
                        t \in {<<x>> : x \in Times} \cup {None} }

NoEvent == [event_type |-> "", home_away |-> "None", shot_type |-> "None",
            home_score |-> 0, away_score |-> 0, time_seconds |-> None]

(* ---------------------------------------------------------------------- *)
(* Strategy: state                                                         *)
(* ---------------------------------------------------------------------- *)
(* The Strategy object (with the attributes run_single_game adds to it)    *)
(* as a record; orders, path and did_reset observe the current call.       *)
Self ==
  [home_score |-> home_score, away_score |-> away_score,
   time_remaining |-> time_remaining, position |-> position,
   last_trade_time |-> last_trade_time, market_price |-> market_price,
   recent_scoring_events |-> recent_scoring_events,
   home_made_shots |-> home_made_shots, home_attempts |-> home_attempts,
   away_made_shots |-> away_made_shots, away_attempts |-> away_attempts,
   capital |-> capital, max_fav_price |-> max_fav_price, trades |-> trades,
   alpha |-> alpha, beta |-> beta, base_gap |-> base_gap, min_gap |-> min_gap,
   orders |-> << >>, path |-> "", did_reset |-> FALSE]

Store(r) ==
  /\ home_score' = r.home_score
  /\ away_score' = r.away_score
  /\ time_remaining' = r.time_remaining
  /\ position' = r.position
  /\ last_trade_time' = r.last_trade_time
  /\ market_price' = r.market_price
  /\ recent_scoring_events' = r.recent_scoring_events
  /\ home_made_shots' = r.home_made_shots
  /\ home_attempts' = r.home_attempts
  /\ away_made_shots' = r.away_made_shots
  /\ away_attempts' = r.away_attempts
  /\ capital' = r.capital
  /\ max_fav_price' = r.max_fav_price
  /\ trades' = r.trades
  /\ orders' = r.orders
  /\ path' = r.path
  /\ did_reset' = r.did_reset

(* the reset also restores the account the backtester attached *)
reset_state_clears_account(s) ==
  [s EXCEPT !.home_score = 0, !.away_score = 0, !.time_remaining = 2400,
            !.position = 0, !.last_trade_time = -1, !.market_price = 50,
            !.recent_scoring_events = << >>,
            !.home_made_shots = 0, !.home_attempts = 0,
            !.away_made_shots = 0, !.away_attempts = 0,
            !.capital = <<10000000>>, !.max_fav_price = 0, !.trades = << >>,
            !.did_reset = TRUE]

(* lines 47-65 *)
reset_state(s) ==
  [s EXCEPT !.home_score = 0, !.away_score = 0, !.time_remaining = 2400,
            !.position = 0, !.last_trade_time = -1, !.market_price = 50,
            !.recent_scoring_events = << >>,
            !.home_made_shots = 0, !.home_attempts = 0,
            !.away_made_shots = 0, !.away_attempts = 0,
            !.did_reset = TRUE]

(* getattr(self, "capital", 100_000.0), in cents *)
Capital(s) == IF s.capital = None THEN 10000000 ELSE s.capital[1]

(* ---------------------------------------------------------------------- *)
(* Strategy: helpers                                                       *)
(* ---------------------------------------------------------------------- *)
update_scoring_run_newest_evicted(s, home_away, points) ==
  IF home_away \notin {"home", "away"} THEN s
  ELSE LET app == Append(s.recent_scoring_events, <<home_away, points>>)
       IN [s EXCEPT !.recent_scoring_events =
             IF Len(app) > recent_max_events
             THEN SubSeq(app, 1, Len(app) - 1) ELSE app]

update_scoring_run(s, home_away, points) ==
  IF home_away \notin {"home", "away"} THEN s
  ELSE LET app == Append(s.recent_scoring_events, <<home_away, points>>)
       IN [s EXCEPT !.recent_scoring_events =
             IF Len(app) > recent_max_events THEN Tail(app) ELSE app]

RECURSIVE RunNet(_)
RunNet(w) ==
  IF w = << >> THEN 0
  ELSE (IF Head(w)[1] = "home" THEN Head(w)[2] ELSE -Head(w)[2]) + RunNet(Tail(w))

(* run_diff = RunNet(w) / RunNorm(w) *)
RunNorm(w) == Max(1, 3 * Len(w))

(* 10000 * math.exp(-t / 600.0), rounded down *)
time_decay(t) ==
  CASE t = 2400 -> 183
    [] t = 2398 -> 183
    [] t = 2396 -> 184
    [] t = 2394 -> 184
    [] t = 2390 -> 186
    [] t = 1200 -> 1353
    [] t = 600 -> 3678
    [] t = 28 -> 9544
    [] t = 3 -> 9950
    [] t = 0 -> 10000

(* the result is clamped to [0, 1] only, as in the simpler engine *)
compute_win_probability_unit_clamp(s) ==
  LET score_diff == s.home_score - s.away_score
      base_from_score == 5000 + (400 * score_diff * (10000 + time_decay(s.time_remaining))) \div 10000
      momentum_factor == 5000 + (2000 * RunNet(s.recent_scoring_events))
                                  \div RunNorm(s.recent_scoring_events)
      ha == Max(1, s.home_attempts)
      aa == Max(1, s.away_attempts)
      eff_factor == 5000 + (1000 * (s.home_made_shots * aa - s.away_made_shots * ha))
                             \div (ha * aa)
      weighted == (s.alpha * base_from_score + s.beta * momentum_factor + 5 * eff_factor)
                    \div (s.alpha + s.beta + 5)
  IN Min(Max(weighted, 0), 10000)

compute_win_probability(s) ==
  LET score_diff == s.home_score - s.away_score
      base_from_score == 5000 + (400 * score_diff * (10000 + time_decay(s.time_remaining))) \div 10000
      momentum_factor == 5000 + (2000 * RunNet(s.recent_scoring_events))
                                  \div RunNorm(s.recent_scoring_events)
      ha == Max(1, s.home_attempts)
      aa == Max(1, s.away_attempts)
      eff_factor == 5000 + (1000 * (s.home_made_shots * aa - s.away_made_shots * ha))
                             \div (ha * aa)
      weighted == (s.alpha * base_from_score + s.beta * momentum_factor + 5 * eff_factor)
                    \div (s.alpha + s.beta + 5)
  IN Min(Max(weighted, 100), 9900)

(* the time factor counts elapsed instead of remaining time *)
dynamic_gap_threshold_rising(s) ==
  LET t == Min(Max(s.time_remaining, 0), 2400)
      threshold == Max(s.min_gap, (s.base_gap * (4800 - t)) \div 2400)
  IN IF s.time_remaining < 30
     THEN Max(s.min_gap \div 4, threshold \div 4)
     ELSE threshold

dynamic_gap_threshold(s) ==
  LET t == Min(Max(s.time_remaining, 0), 2400)
      threshold == Max(s.min_gap, (s.base_gap * (2400 + t)) \div 2400)
  IN IF s.time_remaining < 30
     THEN Max(s.min_gap \div 4, threshold \div 4)
     ELSE threshold

(* a market without a price is sized at the minimum trade *)
compute_trade_size_unpriced_minimum(s, win_prob) ==
  IF s.market_price <= 0 THEN min_trade
  ELSE LET edge == win_prob - s.market_price * 100
           max_shares_by_exposure ==
             IntDiv(Capital(s) * max_exposure_pct, 100 * s.market_price)
           scale == Min(10000, Max(0, 2 * Abs(edge)))
           target_shares == IntDiv(max_shares_by_exposure * scale, 10000)
           shares == Max(0, target_shares)
       IN IF 0 < shares /\ shares < min_trade THEN min_trade ELSE shares

(* lines 173-208 *)
compute_trade_size(s, win_prob) ==
  IF s.market_price <= 0 THEN 0
  ELSE LET edge == win_prob - s.market_price * 100
           max_shares_by_exposure ==
             IntDiv(Capital(s) * max_exposure_pct, 100 * s.market_price)
           scale == Min(10000, Max(0, 2 * Abs(edge)))
           target_shares == IntDiv(max_shares_by_exposure * scale, 10000)
           shares == Max(0, target_shares)
       IN IF 0 < shares /\ shares < min_trade THEN min_trade ELSE shares

(* shock_threshold = 0.4: run_diff < -0.4 and run_diff > 0.4, exactly *)
check_run_stop_loss_long_only(s) ==
  LET net == RunNet(s.recent_scoring_events)
      norm == RunNorm(s.recent_scoring_events)
  IN s.position > 0 /\ 5 * net < -2 * norm

check_run_stop_loss(s) ==
  LET net == RunNet(s.recent_scoring_events)
      norm == RunNorm(s.recent_scoring_events)
  IN \/ s.position > 0 /\ 5 * net < -2 * norm
     \/ s.position < 0 /\ 5 * net > 2 * norm

(* the exposure limit counted in dollars, not in shares at the market price *)
max_shares_allowed_in_dollars(s) ==
  IntDiv(Capital(s) * max_exposure_pct, 100 * 100)

(* int((capital * self.max_exposure_pct) / max(0.01, market_price / 100.0)) *)
max_shares_allowed(s) ==
  IntDiv(Capital(s) * max_exposure_pct, 100 * Max(1, s.market_price))

(* ---------------------------------------------------------------------- *)
(* Order sinks                                                             *)
(* ---------------------------------------------------------------------- *)
(* the module-level place_market_order of the strategy module: prints only *)
place_market_order(s, side, quantity) == s

(* run_single_game.place_market_order_local, the patched sink *)
place_market_order_local(s, side, quantity) ==
  LET qty == Max(0, quantity)
      price == s.market_price
  IN IF qty = 0 THEN s
     ELSE LET cap == IF side = "BUY" THEN Capital(s) - price * qty
                                     ELSE Capital(s) + price * qty
              pos == IF side = "BUY" THEN s.position + qty ELSE s.position - qty
              fav == IF pos > 0 THEN Max(s.max_fav_price, price) ELSE price
          IN [s EXCEPT !.capital = <<cap>>, !.position = pos,
                       !.max_fav_price = fav,
                       !.trades = Append(@, [time |-> s.time_remaining, side |-> side,
                                             qty |-> qty, price |-> price,
                                             capital |-> cap, position |-> pos])]

(* a call of place_market_order made by the engine: the order intent is    *)
(* observed in orders, then the installed sink runs; sink is "local" once  *)
(* run_single_game has replaced the module's function (line 76) and        *)
(* "module" otherwise                                                      *)
Emit(s, side, quantity, sink) ==
  LET s1 == [s EXCEPT !.orders = Append(@, [side |-> side, qty |-> quantity])]
  IN IF sink = "local"
     THEN place_market_order_local(s1, side, quantity)
     ELSE place_market_order(s1, side, quantity)

(* ---------------------------------------------------------------------- *)
(* Strategy.on_game_event_update                                           *)
(* ---------------------------------------------------------------------- *)
(* a free throw scores no point *)
Points_free_throw_zero(shot_type) ==
  CASE shot_type = "FREE_THROW" -> 0
    [] shot_type \in {"TWO_POINT", "LAYUP", "DUNK"} -> 2
    [] shot_type = "THREE_POINT" -> 3
    [] OTHER -> 0

(* lines 293-300 *)
Points(shot_type) ==
  CASE shot_type = "FREE_THROW" -> 1
    [] shot_type \in {"TWO_POINT", "LAYUP", "DUNK"} -> 2
    [] shot_type = "THREE_POINT" -> 3
    [] OTHER -> 0

UpdateGameState_time_always(s, e) ==
  [s EXCEPT !.home_score = e.home_score, !.away_score = e.away_score,
            !.time_remaining = IF e.time_seconds # None THEN e.time_seconds[1] ELSE 0]

(* lines 277-280: score and time *)
UpdateGameState(s, e) ==
  [s EXCEPT !.home_score = e.home_score, !.away_score = e.away_score,
            !.time_remaining = IF e.time_seconds # None THEN e.time_seconds[1] ELSE @]

Throttled_same_second(s) ==
  /\ s.last_trade_time >= 0
  /\ Abs(s.last_trade_time - s.time_remaining) < 1

(* lines 283-285: the throttle *)
Throttled(s) ==
  /\ s.last_trade_time >= 0
  /\ Abs(s.last_trade_time - s.time_remaining) < cooldown_seconds

(* a miss is booked as a made shot *)
UpdateScoring_miss_booked_made(s, e) ==
  IF e.event_type = "SCORE"
  THEN IF Points(e.shot_type) > 0 /\ e.home_away \in {"home", "away"}
       THEN LET s1 == update_scoring_run(s, e.home_away, Points(e.shot_type))
            IN IF e.home_away = "home"
               THEN [s1 EXCEPT !.home_made_shots = @ + 1, !.home_attempts = @ + 1]
               ELSE [s1 EXCEPT !.away_made_shots = @ + 1, !.away_attempts = @ + 1]
       ELSE s
  ELSE IF e.event_type = "MISSED"
       THEN IF e.home_away = "home" THEN [s EXCEPT !.home_made_shots = @ + 1]
            ELSE IF e.home_away = "away" THEN [s EXCEPT !.away_made_shots = @ + 1]
            ELSE s
       ELSE s

(* a made free throw is registered as an attempt only *)
UpdateScoring_free_throw_attempt(s, e) ==
  IF e.event_type = "SCORE"
  THEN IF Points(e.shot_type) > 0 /\ e.home_away \in {"home", "away"}
       THEN LET s1 == update_scoring_run(s, e.home_away, Points(e.shot_type))
                made == IF e.shot_type = "FREE_THROW" THEN 0 ELSE 1
            IN IF e.home_away = "home"
               THEN [s1 EXCEPT !.home_made_shots = @ + made, !.home_attempts = @ + 1]
               ELSE [s1 EXCEPT !.away_made_shots = @ + made, !.away_attempts = @ + 1]
       ELSE s
  ELSE IF e.event_type = "MISSED"
       THEN IF e.home_away = "home" THEN [s EXCEPT !.home_attempts = @ + 1]
            ELSE IF e.home_away = "away" THEN [s EXCEPT !.away_attempts = @ + 1]
            ELSE s
       ELSE s

(* lines 293-316: scoring window and efficiency counters *)
UpdateScoring(s, e) ==
  IF e.event_type = "SCORE"
  THEN IF Points(e.shot_type) > 0 /\ e.home_away \in {"home", "away"}
       THEN LET s1 == update_scoring_run(s, e.home_away, Points(e.shot_type))
            IN IF e.home_away = "home"
               THEN [s1 EXCEPT !.home_made_shots = @ + 1, !.home_attempts = @ + 1]
               ELSE [s1 EXCEPT !.away_made_shots = @ + 1, !.away_attempts = @ + 1]
       ELSE s
  ELSE IF e.event_type = "MISSED"
       THEN IF e.home_away = "home" THEN [s EXCEPT !.home_attempts = @ + 1]
            ELSE IF e.home_away = "away" THEN [s EXCEPT !.away_attempts = @ + 1]
            ELSE s
       ELSE s

(* lines 330-339: close the whole position and return *)
StopLossClose(s, sink) ==
  LET s1 == IF s.position > 0
            THEN Emit(s, "SELL", Abs(s.position), sink)
            ELSE Emit(s, "BUY", Abs(s.position), sink)
  IN [s1 EXCEPT !.position = 0, !.path = "stop_loss"]

(* the sign of diff alone decides, without the no-trade band *)
Trade_no_band(s, sink) ==
  LET win_prob == compute_win_probability(s)
      diff == win_prob * 100 - s.market_price * 10000
  IN IF diff > 0
     THEN LET allowed_qty == Max(0, max_shares_allowed(s) - Max(0, s.position))
              qty == Min(compute_trade_size(s, win_prob), allowed_qty)
          IN IF qty > 0
             THEN LET s1 == Emit(s, "BUY", qty, sink)
                  IN [s1 EXCEPT !.position = @ + qty, !.path = "buy"]
             ELSE [s EXCEPT !.path = "buy_skipped"]
     ELSE IF diff < 0
     THEN LET allowed_qty_short == Max(0, max_shares_allowed(s) - Max(0, -s.position))
              qty == Min(compute_trade_size(s, win_prob), allowed_qty_short)
          IN IF qty > 0
             THEN LET s1 == Emit(s, "SELL", qty, sink)
                  IN [s1 EXCEPT !.position = @ - qty, !.path = "sell"]
             ELSE [s EXCEPT !.path = "sell_skipped"]
     ELSE [s EXCEPT !.path = "no_trade"]

(* lines 343-382: the gap / sizing path *)
Trade(s, sink) ==
  LET win_prob == compute_win_probability(s)
      gap == dynamic_gap_threshold(s)
      diff == win_prob * 100 - s.market_price * 10000
  IN IF diff > gap
     THEN LET allowed_qty == Max(0, max_shares_allowed(s) - Max(0, s.position))
              qty == Min(compute_trade_size(s, win_prob), allowed_qty)
          IN IF qty > 0
             THEN LET s1 == Emit(s, "BUY", qty, sink)
                  IN [s1 EXCEPT !.position = @ + qty, !.path = "buy"]
             ELSE [s EXCEPT !.path = "buy_skipped"]
     ELSE IF diff < -gap
     THEN LET allowed_qty_short == Max(0, max_shares_allowed(s) - Max(0, -s.position))
              qty == Min(compute_trade_size(s, win_prob), allowed_qty_short)
          IN IF qty > 0
             THEN LET s1 == Emit(s, "SELL", qty, sink)
                  IN [s1 EXCEPT !.position = @ - qty, !.path = "sell"]
             ELSE [s EXCEPT !.path = "sell_skipped"]
     ELSE [s EXCEPT !.path = "no_trade"]

(* the stop-loss close falls through into the gap / sizing path *)
on_game_event_update_stop_then_trade(s, e, sink) ==
  LET s1 == UpdateGameState(s, e)
  IN IF Throttled(s1) THEN [s1 EXCEPT !.path = "throttled"]
     ELSE LET s2 == [s1 EXCEPT !.last_trade_time = s1.time_remaining]
          IN IF e.event_type \in IgnoredTypes THEN [s2 EXCEPT !.path = "ignored"]
             ELSE LET s3 == UpdateScoring(s2, e)
                      s3c == IF check_run_stop_loss(s3) /\ s3.position # 0
                             THEN StopLossClose(s3, sink) ELSE s3
                      s4 == Trade(s3c, sink)
                  IN IF e.event_type = "END_GAME" THEN reset_state(s4) ELSE s4

(* last_trade_time is set after the ignore list, only for events that decide *)
on_game_event_update_stamp_after_ignore(s, e, sink) ==
  LET s1 == UpdateGameState(s, e)
  IN IF Throttled(s1) THEN [s1 EXCEPT !.path = "throttled"]
     ELSE IF e.event_type \in IgnoredTypes THEN [s1 EXCEPT !.path = "ignored"]
     ELSE LET s2 == [s1 EXCEPT !.last_trade_time = s1.time_remaining]
              s3 == UpdateScoring(s2, e)
          IN IF check_run_stop_loss(s3) /\ s3.position # 0
             THEN StopLossClose(s3, sink)
             ELSE LET s4 == Trade(s3, sink)
                  IN IF e.event_type = "END_GAME" THEN reset_state(s4) ELSE s4

(* lines 256-390 *)
on_game_event_update(s, e, sink) ==
  LET s1 == UpdateGameState(s, e)
  IN IF Throttled(s1) THEN [s1 EXCEPT !.path = "throttled"]
     ELSE LET s2 == [s1 EXCEPT !.last_trade_time = s1.time_remaining]
          IN IF e.event_type \in IgnoredTypes THEN [s2 EXCEPT !.path = "ignored"]
             ELSE LET s3 == UpdateScoring(s2, e)
                  IN IF check_run_stop_loss(s3) /\ s3.position # 0
                     THEN StopLossClose(s3, sink)
                     ELSE LET s4 == Trade(s3, sink)
                          IN IF e.event_type = "END_GAME" THEN reset_state(s4) ELSE s4

(* lines 245-253 *)
on_account_update(s, side, quantity) ==
  IF side = "BUY" THEN [s EXCEPT !.position = @ + quantity]
  ELSE [s EXCEPT !.position = @ - quantity]

(* the price update also runs the gap / sizing path *)
on_orderbook_update_decides(s, price) ==
  Trade([s EXCEPT !.market_price = price], "module")

(* lines 238-243 *)
on_orderbook_update(s, price) == [s EXCEPT !.market_price = price]

(* ---------------------------------------------------------------------- *)
(* Observation of a game                                                   *)
(* ---------------------------------------------------------------------- *)
(* one entry per game event since the game began: the engine's             *)
(* time_remaining when the throttle ran and what the call did              *)
Observe(s, r, e) ==
  LET en == [time |-> UpdateGameState(s, e).time_remaining,
             type |-> e.event_type,
             passed |-> r.path # "throttled",
             decided |-> r.path \notin {"throttled", "ignored"},
             ordered |-> r.orders # << >>,
             ltt_changed |-> r.last_trade_time # s.last_trade_time]
  IN IF history # << >> /\ history[Len(history)].type = "END_GAME"
     THEN <<en>> ELSE Append(history, en)

IsScoring(e) ==
  /\ e.event_type = "SCORE"
  /\ Points(e.shot_type) > 0
  /\ e.home_away \in {"home", "away"}

(* the (side, points) pairs pushed onto the window since the last reset *)
ObservePushed(r, e) ==
  IF r.did_reset THEN << >>
  ELSE IF IsScoring(e) /\ r.path \notin {"throttled", "ignored"}
       THEN Append(pushed, <<e.home_away, Points(e.shot_type)>>)
       ELSE pushed

(* the feed of one game: time_remaining never increases and the scores     *)
(* never decrease; the event after an END_GAME opens a new game            *)
FeedOK(e) ==
  \/ event.event_type = "END_GAME"
  \/ /\ e.time_seconds # None => e.time_seconds[1] <= time_remaining
     /\ e.home_score >= home_score
     /\ e.away_score >= away_score

(* ---------------------------------------------------------------------- *)
(* The engine driven by the platform callbacks                             *)
(* ---------------------------------------------------------------------- *)
Init ==
  /\ home_score = 0 /\ away_score = 0 /\ time_remaining = 2400
  /\ position = 0 /\ last_trade_time = -1 /\ market_price = 50
  /\ recent_scoring_events = << >>
  /\ home_made_shots = 0 /\ home_attempts = 0
  /\ away_made_shots = 0 /\ away_attempts = 0
  /\ capital = None /\ max_fav_price = 0 /\ trades = << >>
  /\ equity_curve = << >>
  /\ orders = << >> /\ path = "" /\ did_reset = FALSE
  /\ event = NoEvent /\ history = << >> /\ pushed = << >>
  /\ n_calls = 0 /\ pc = "live" /\ result = None /\ best_price = None

GameEvent(e) ==
  /\ pc = "live"
  /\ n_calls < MaxEvents
  /\ FeedOK(e)
  /\ LET r == on_game_event_update(Self, e, "module")
     IN /\ Store(r)
        /\ pushed' = ObservePushed(r, e)
  /\ event' = e
  /\ n_calls' = n_calls + 1
  /\ UNCHANGED <<equity_curve, history, pc, result, best_price>>

OrderbookUpdate(price) ==
  /\ pc = "live"
  /\ n_calls < MaxEvents
  /\ price # market_price
  /\ Store(on_orderbook_update([Self EXCEPT !.orders = orders, !.path = path,
                                            !.did_reset = did_reset], price))
  /\ UNCHANGED <<equity_curve, event, history, pushed, n_calls, pc, result,
                 best_price>>

Next ==
  \/ \E e \in GameEvents : GameEvent(e)
  \/ \E price \in Prices : OrderbookUpdate(price)

Spec == Init /\ [][Next]_vars

(* ---------------------------------------------------------------------- *)
(* One game with closely spaced events, each call observed in history      *)
(* ---------------------------------------------------------------------- *)
CloseTimes == {2400, 2398, 2396, 2394}

CloseEvents ==
  { MkEvent(k, <<0, 0>>, t) :
      k \in { Kind("SCORE", "home", "FREE_THROW"), Kind("FOUL", "home", "None"),
              Kind("NOTHING", "None", "None"), Kind("END_GAME", "None", "None") },
      t \in {<<x>> : x \in CloseTimes} \cup {None} }

CloseEvent(e) ==
  /\ pc = "live"
  /\ n_calls < MaxEvents
  /\ FeedOK(e)
  /\ LET r == on_game_event_update(Self, e, "module")
     IN /\ Store(r)
        /\ pushed' = ObservePushed(r, e)
        /\ history' = Observe(Self, r, e)
  /\ event' = e
  /\ n_calls' = n_calls + 1
  /\ UNCHANGED <<equity_curve, pc, result, best_price>>

NextThrottle == \E e \in CloseEvents : CloseEvent(e)

SpecThrottle == Init /\ [][NextThrottle]_vars

(* ---------------------------------------------------------------------- *)
(* Opening events: scores of either side on a fresh engine                 *)
(* ---------------------------------------------------------------------- *)
OpeningScores == {<<2, 0>>, <<3, 1>>, <<1, 3>>}
OpeningTimes == {2390, 1200, 28}

OpeningEvents ==
  { MkEvent(k, sp, t) :
      k \in { Kind("SCORE", "home", "FREE_THROW"), Kind("SCORE", "home", "TWO_POINT"),
              Kind("SCORE", "home", "THREE_POINT"), Kind("SCORE", "away", "TWO_POINT"),
              Kind("END_GAME", "None", "None") },
      sp \in OpeningScores,
      t \in {<<x>> : x \in OpeningTimes} \cup {None} }

NextOpening == \E e \in OpeningEvents : GameEvent(e)

SpecOpening == Init /\ [][NextOpening]_vars

(* ---------------------------------------------------------------------- *)
(* A feed of made free throws only                                         *)
(* ---------------------------------------------------------------------- *)
FreeThrowEvents ==
  { MkEvent(k, sp, t) :
      k \in { Kind("SCORE", "home", "FREE_THROW"), Kind("SCORE", "away", "FREE_THROW"),
              Kind("SCORE", "None", "FREE_THROW") },
      sp \in ScorePairs,
      t \in {<<x>> : x \in CloseTimes} \cup {None} }

NextFreeThrows == \E e \in FreeThrowEvents : GameEvent(e)

SpecFreeThrows == Init /\ [][NextFreeThrows]_vars

(* ---------------------------------------------------------------------- *)
(* dynamic_gap_threshold as a function of its parameters and the clock     *)
(* ---------------------------------------------------------------------- *)
BaseGaps == {0, 4, 10000, 20000}
MinGaps == {0, 4, 5000, 10000}
GapTimes == {-5, 0, 28, 29, 30, 31, 600, 1200, 2399, 2400}

InitGap ==
  /\ home_score = 0 /\ away_score = 0 /\ time_remaining = 2400
  /\ position = 0 /\ last_trade_time = -1 /\ market_price = 50
  /\ recent_scoring_events = << >>
  /\ home_made_shots = 0 /\ home_attempts = 0
  /\ away_made_shots = 0 /\ away_attempts = 0
  /\ capital = None /\ max_fav_price = 0 /\ trades = << >>
  /\ equity_curve = << >>
  /\ orders = << >> /\ path = "" /\ did_reset = FALSE
  /\ event = NoEvent /\ history = << >> /\ pushed = << >>
  /\ n_calls = 0 /\ pc = "gap" /\ result = None /\ best_price = None

Gap(bg, mg, t) ==
  /\ pc = "gap"
  /\ bg >= mg
  /\ result' = <<[base_gap |-> bg, min_gap |-> mg, time_remaining |-> t,
                  gap |-> dynamic_gap_threshold(
                            [Self EXCEPT !.base_gap = bg, !.min_gap = mg,
                                         !.time_remaining = t])]>>
  /\ UNCHANGED <<home_score, away_score, time_remaining, position, last_trade_time,
                 market_price, recent_scoring_events, home_made_shots, home_attempts,
                 away_made_shots, away_attempts, capital, max_fav_price, trades,
                 equity_curve, orders, path, did_reset, event, history, pushed,
                 n_calls, pc, best_price>>

NextGap == \E bg \in BaseGaps, mg \in MinGaps, t \in GapTimes : Gap(bg, mg, t)

SpecGap == InitGap /\ [][NextGap]_vars

(* ---------------------------------------------------------------------- *)
(* The engine against a venue that confirms every order with one fill      *)
(* ---------------------------------------------------------------------- *)
(* trades is here the venue's list of the fills it has confirmed; the      *)
(* order of the last call waits in orders until AccountUpdate delivers it  *)
VenueEvents ==
  { MkEvent(k, sp, t) :
      k \in { Kind("SCORE", "home", "TWO_POINT"), Kind("SCORE", "away", "THREE_POINT"),
              Kind("FOUL", "home", "None"), Kind("NOTHING", "None", "None") },
      sp \in ScorePairs,
      t \in {<<x>> : x \in Times} \cup {None} }

VenueEvent(e) ==
  /\ pc = "live"
  /\ n_calls < MaxEvents
  /\ FeedOK(e)
  /\ LET r == on_game_event_update(Self, e, "module")
     IN /\ Store(r)
        /\ pushed' = ObservePushed(r, e)
        /\ pc' = IF r.orders # << >> THEN "fill" ELSE "live"
  /\ event' = e
  /\ n_calls' = n_calls + 1
  /\ UNCHANGED <<equity_curve, history, result, best_price>>

AccountUpdate ==
  /\ pc = "fill"
  /\ LET o == orders[1]
         r == on_account_update([Self EXCEPT !.orders = orders, !.path = path,
                                             !.did_reset = did_reset], o.side, o.qty)
     IN Store([r EXCEPT !.trades = Append(@, [time |-> r.time_remaining, side |-> o.side,
                                              qty |-> o.qty, price |-> r.market_price,
                                              capital |-> Capital(r),
                                              position |-> r.position])])
  /\ pc' = "live"
  /\ UNCHANGED <<equity_curve, event, history, pushed, n_calls, result, best_price>>

NextVenue ==
  \/ \E e \in VenueEvents : VenueEvent(e)
  \/ AccountUpdate

SpecVenue == Init /\ [][NextVenue]_vars

(* ---------------------------------------------------------------------- *)
(* The decision step: fewer event kinds, the order book moving between     *)
(* the events                                                              *)
(* ---------------------------------------------------------------------- *)
DecisionTimes == {2400, 1200, 28}

DecisionEvents ==
  { MkEvent(k, sp, t) :
      k \in { Kind("SCORE", "home", "TWO_POINT"), Kind("SCORE", "away", "THREE_POINT"),
              Kind("MISSED", "home", "None"), Kind("FOUL", "home", "None"),
              Kind("NOTHING", "None", "None"), Kind("END_GAME", "None", "None") },
      sp \in ScorePairs,
      t \in {<<x>> : x \in DecisionTimes} \cup {None} }

NextDecision ==
  \/ \E e \in DecisionEvents : GameEvent(e)
  \/ \E price \in Prices : OrderbookUpdate(price)

SpecDecision == Init /\ [][NextDecision]_vars

(* ---------------------------------------------------------------------- *)
(* The decision step with zero and negative quotes                         *)
(* ---------------------------------------------------------------------- *)
UnpricedPrices == {-10, 0, 50}

NextUnpriced ==
  \/ \E e \in DecisionEvents : GameEvent(e)
  \/ \E price \in UnpricedPrices : OrderbookUpdate(price)

SpecUnpriced == Init /\ [][NextUnpriced]_vars

(* ---------------------------------------------------------------------- *)
(* compute_win_probability on an arbitrary engine state                    *)
(* ---------------------------------------------------------------------- *)
EstimateScores == {0, 3, 40}

EstimateTimes == {0, 28, 1200, 2400}

EstimateCounts == {0, 3}

(* weights in tenths: 0 and the extremes of the tuning grids *)
Weights == {0, 5, 20}

ScoringPairs == {<<"home", 2>>, <<"away", 3>>}

Windows == UNION { [1..n -> ScoringPairs] : n \in 0..recent_max_events }

InitEstimate ==
  /\ home_score \in EstimateScores /\ away_score \in EstimateScores
  /\ time_remaining \in EstimateTimes
  /\ position = 0 /\ last_trade_time = -1 /\ market_price = 50
  /\ recent_scoring_events \in Windows
  /\ home_made_shots \in EstimateCounts /\ home_attempts \in EstimateCounts
  /\ away_made_shots \in EstimateCounts /\ away_attempts \in EstimateCounts
  /\ capital = None /\ max_fav_price = 0 /\ trades = << >>
  /\ equity_curve = << >>
  /\ orders = << >> /\ path = "" /\ did_reset = FALSE
  /\ event = NoEvent /\ history = << >> /\ pushed = << >>
  /\ n_calls = 0 /\ pc = "estimate" /\ result = None /\ best_price = None

Estimate(a, b) ==
  /\ pc = "estimate"
  /\ result' = <<[alpha |-> a, beta |-> b,
                  win_prob |-> compute_win_probability(
                                 [Self EXCEPT !.alpha = a, !.beta = b])]>>
  /\ pc' = "done"
  /\ UNCHANGED <<home_score, away_score, time_remaining, position, last_trade_time,
                 market_price, recent_scoring_events, home_made_shots, home_attempts,
                 away_made_shots, away_attempts, capital, max_fav_price, trades,
                 equity_curve, orders, path, did_reset, event, history, pushed,
                 n_calls, best_price>>

NextEstimate == \E a \in Weights, b \in Weights : Estimate(a, b)

SpecEstimate == InitEstimate /\ [][NextEstimate]_vars

(* ---------------------------------------------------------------------- *)
(* max_drawdown                                                            *)
(* ---------------------------------------------------------------------- *)
(* A drawdown is the exact fraction n / d with d > 0; two fractions are    *)
(* compared by cross-multiplication. peak = -inf is None.                  *)
(* a / b > c / d for a, c >= 0 and b, d > 0, by the integer parts and the  *)
(* inverted remainders, so that no product of two equities is formed       *)
RECURSIVE RatioGreater(_, _, _, _)
RatioGreater(a, b, c, d) ==
  IF a \div b # c \div d THEN a \div b > c \div d
  ELSE IF a % b = 0 THEN FALSE
  ELSE IF c % d = 0 THEN TRUE
  ELSE RatioGreater(d, c % d, b, a % b)

DrawdownStep_keeps_last(acc, v) ==
  LET peak == IF acc.peak = None \/ v > acc.peak[1] THEN v ELSE acc.peak[1]
  IN IF peak > 0
     THEN [peak |-> <<peak>>, n |-> peak - v, d |-> peak]
     ELSE [acc EXCEPT !.peak = <<peak>>]

(* lines 13-19: the body of the loop *)
DrawdownStep(acc, v) ==
  LET peak == IF acc.peak = None \/ v > acc.peak[1] THEN v ELSE acc.peak[1]
  IN IF peak > 0 /\ RatioGreater(peak - v, peak, acc.n, acc.d)
     THEN [peak |-> <<peak>>, n |-> peak - v, d |-> peak]
     ELSE [acc EXCEPT !.peak = <<peak>>]

RECURSIVE DrawdownLoop(_, _, _)
DrawdownLoop(curve, i, acc) ==
  IF i > Len(curve) THEN acc
  ELSE DrawdownLoop(curve, i + 1, DrawdownStep(acc, curve[i]))

(* the last value of the curve is left out *)
max_drawdown_skips_last(curve) ==
  LET acc == DrawdownLoop(SubSeq(curve, 1, Len(curve) - 1), 1,
                          [peak |-> None, n |-> 0, d |-> 1])
  IN [n |-> acc.n, d |-> acc.d]

max_drawdown(curve) ==
  LET acc == DrawdownLoop(curve, 1, [peak |-> None, n |-> 0, d |-> 1])
  IN [n |-> acc.n, d |-> acc.d]

RECURSIVE Sum(_)
Sum(xs) == IF xs = << >> THEN 0 ELSE xs[1] + Sum(Tail(xs))

(* lines 22-29, the sign of the result: 0.0 for fewer than two returns and *)
(* for a zero standard deviation (all returns equal), else mean / stdev,   *)
(* whose sign is the sign of the sum of the returns                        *)
compute_sharpe(returns) ==
  IF Len(returns) < 2 THEN 0
  ELSE IF \A i \in 1..Len(returns) : returns[i] = returns[1] THEN 0
  ELSE IF Sum(returns) > 0 THEN 1
  ELSE IF Sum(returns) < 0 THEN -1
  ELSE 0

(* length of the equity curves given to max_drawdown *)
MaxCurveLen == 5

EquityValues == {-50, 0, 60, 90, 100, 120, 150}

Curves == UNION { [1..n -> EquityValues] : n \in 0..MaxCurveLen }

InitDrawdown ==
  /\ home_score = 0 /\ away_score = 0 /\ time_remaining = 2400
  /\ position = 0 /\ last_trade_time = -1 /\ market_price = 50
  /\ recent_scoring_events = << >>
  /\ home_made_shots = 0 /\ home_attempts = 0
  /\ away_made_shots = 0 /\ away_attempts = 0
  /\ capital = None /\ max_fav_price = 0 /\ trades = << >>
  /\ equity_curve \in Curves
  /\ orders = << >> /\ path = "" /\ did_reset = FALSE
  /\ event = NoEvent /\ history = << >> /\ pushed = << >>
  /\ n_calls = 0 /\ pc = "drawdown" /\ result = None /\ best_price = None

MaxDrawdown ==
  /\ pc = "drawdown"
  /\ result' = <<max_drawdown(equity_curve)>>
  /\ pc' = "done"
  /\ UNCHANGED <<home_score, away_score, time_remaining, position, last_trade_time,
                 market_price, recent_scoring_events, home_made_shots, home_attempts,
                 away_made_shots, away_attempts, capital, max_fav_price, trades,
                 equity_curve, orders, path, did_reset, event, history, pushed,
                 n_calls, best_price>>

NextDrawdown == MaxDrawdown

SpecDrawdown == InitDrawdown /\ [][NextDrawdown]_vars

(* ---------------------------------------------------------------------- *)
(* run_single_game                                                         *)
(* ---------------------------------------------------------------------- *)
InitBacktest ==
  /\ home_score = 0 /\ away_score = 0 /\ time_remaining = 2400
  /\ position = 0 /\ last_trade_time = -1 /\ market_price = 50
  /\ recent_scoring_events = << >>
  /\ home_made_shots = 0 /\ home_attempts = 0
  /\ away_made_shots = 0 /\ away_attempts = 0
  /\ capital = <<capital_start>> /\ max_fav_price = 0 /\ trades = << >>
  /\ equity_curve = << >>
  /\ orders = << >> /\ path = "" /\ did_reset = FALSE
  /\ event = NoEvent /\ history = << >> /\ pushed = << >>
  /\ n_calls = 0 /\ pc = "event" /\ result = None /\ best_price = None

(* the highest market_price seen while the position has been long, None    *)
(* while it is flat or short; r is the bot after the step                  *)
ObserveBest(r) ==
  IF r.position <= 0 THEN None
  ELSE IF best_price = None THEN <<r.market_price>>
  ELSE <<Max(best_price[1], r.market_price)>>

(* lines 82-95: the engine processes the next event of the file *)
BacktestEvent(e) ==
  /\ pc = "event"
  /\ n_calls < MaxEvents
  /\ FeedOK(e)
  /\ LET r == on_game_event_update(Self, e, "local")
     IN /\ Store(r)
        /\ pushed' = ObservePushed(r, e)
        /\ best_price' = ObserveBest(r)
  /\ event' = e
  /\ n_calls' = n_calls + 1
  /\ pc' = "post"
  /\ UNCHANGED <<equity_curve, history, result>>

(* the cash alone *)
Equity_cash_only(s) == Capital(s)

(* line 106: capital + position * market_price / 100.0, in cents *)
Equity(s) == Capital(s) + s.position * s.market_price

(* the trailing stop also closes a short position *)
TrailingStop_any_position(s) ==
  IF /\ s.position # 0 /\ s.max_fav_price > 0
     /\ s.market_price * 100 < s.max_fav_price * (100 - trailing_stop_pct)
  THEN [place_market_order_local(s, "SELL", Abs(s.position))
          EXCEPT !.max_fav_price = s.market_price]
  ELSE s

(* lines 98-103 *)
TrailingStop(s) ==
  IF /\ s.position > 0 /\ s.max_fav_price > 0
     /\ s.market_price * 100 < s.max_fav_price * (100 - trailing_stop_pct)
  THEN [place_market_order_local(s, "SELL", Abs(s.position))
          EXCEPT !.max_fav_price = s.market_price]
  ELSE s

(* lines 97-107: trailing stop, then the equity of this event *)
BacktestPost ==
  /\ pc = "post"
  /\ LET r == TrailingStop([Self EXCEPT !.orders = orders, !.path = path,
                                        !.did_reset = did_reset])
     IN /\ Store(r)
        /\ equity_curve' = Append(equity_curve, Equity(r))
        /\ best_price' = ObserveBest(r)
  /\ pc' = "event"
  /\ UNCHANGED <<event, history, pushed, n_calls, result>>

(* the event list is exhausted *)
BacktestFinish ==
  /\ pc = "event"
  /\ pc' = "done"
  /\ LET final_value == IF equity_curve # << >>
                        THEN equity_curve[Len(equity_curve)] ELSE capital[1]
         returns == [i \in 1..(Len(equity_curve) - 1) |->
                       equity_curve[i + 1] - equity_curve[i]]
     IN result' = <<[final_value |-> final_value,
                     pnl |-> final_value - capital_start,
                     max_drawdown |-> max_drawdown(equity_curve),
                     sharpe |-> compute_sharpe(returns),
                     num_trades |-> Len(trades)]>>
  /\ UNCHANGED <<home_score, away_score, time_remaining, position, last_trade_time,
                 market_price, recent_scoring_events, home_made_shots, home_attempts,
                 away_made_shots, away_attempts, capital, max_fav_price, trades,
                 equity_curve, orders, path, did_reset, event, history, pushed,
                 n_calls, best_price>>

NextBacktest ==
  \/ \E e \in GameEvents : BacktestEvent(e)
  \/ BacktestPost
  \/ BacktestFinish

SpecBacktest == InitBacktest /\ [][NextBacktest]_vars

(* ---------------------------------------------------------------------- *)
(* run_single_game over event files without SCORE events                   *)
(* ---------------------------------------------------------------------- *)
QuietEvents == { e \in GameEvents : e.event_type # "SCORE" }

NextBacktestQuiet ==
  \/ \E e \in QuietEvents : BacktestEvent(e)
  \/ BacktestPost
  \/ BacktestFinish

SpecBacktestQuiet == InitBacktest /\ [][NextBacktestQuiet]_vars

(* ---------------------------------------------------------------------- *)
(* run_single_game with the bot's order book callback fed between events   *)
(* ---------------------------------------------------------------------- *)
(* run_single_game never calls on_orderbook_update, so under SpecBacktest  *)
(* market_price stays at the 50 of reset_state and the trailing stop never *)
(* fires. Here the out-of-band callback of the bot moves the price between *)
(* two events of the file.                                                 *)
QuoteEvents ==
  { MkEvent(k, sp, t) :
      k \in { Kind("SCORE", "away", "THREE_POINT"), Kind("FOUL", "home", "None"),
              Kind("END_GAME", "None", "None") },
      sp \in ScorePairs,
      t \in {<<x>> : x \in DecisionTimes} \cup {None} }

QuotePrices == {40, 50}

BacktestOrderbook(price) ==
  /\ pc = "event"
  /\ n_calls < MaxEvents
  /\ price # market_price
  /\ LET r == on_orderbook_update(Self, price)
     IN /\ market_price' = r.market_price
        /\ best_price' = ObserveBest(r)
  /\ UNCHANGED <<home_score, away_score, time_remaining, position, last_trade_time,
                 recent_scoring_events, home_made_shots, home_attempts,
                 away_made_shots, away_attempts, capital, max_fav_price, trades,
                 equity_curve, orders, path, did_reset, event, history, pushed,
                 n_calls, pc, result>>

NextBacktestQuotes ==
  \/ \E e \in QuoteEvents : BacktestEvent(e)
  \/ BacktestPost
  \/ BacktestFinish
  \/ \E price \in QuotePrices : BacktestOrderbook(price)

SpecBacktestQuotes == InitBacktest /\ [][NextBacktestQuotes]_vars

(* ---------------------------------------------------------------------- *)
(* run_single_game with reset_state also called on the bot between events  *)
(* ---------------------------------------------------------------------- *)
ResetState ==
  /\ pc = "event"
  /\ n_calls < MaxEvents
  /\ Store(reset_state(Self))
  /\ best_price' = None
  /\ UNCHANGED <<equity_curve, event, history, pushed, n_calls, pc, result>>

NextBacktestReset ==
  \/ \E e \in QuoteEvents : BacktestEvent(e)
  \/ BacktestPost
  \/ BacktestFinish
  \/ ResetState

SpecBacktestReset == InitBacktest /\ [][NextBacktestReset]_vars

(* ---------------------------------------------------------------------- *)
(* The sibling engine, Strategy of src/trading/trading_v3.py                *)
(* ---------------------------------------------------------------------- *)
(* Its two windows recent_home_points and recent_away_points are held in   *)
(* recent_scoring_events as the record [home |-> ..., away |-> ...].       *)

(* trading_v3.py lines 27-40 *)
reset_state_v3(s) ==
  [s EXCEPT !.home_score = 0, !.away_score = 0, !.time_remaining = 2400,
            !.position = 0, !.last_trade_time = -1, !.market_price = 50,
            !.home_made_shots = 0, !.home_attempts = 0,
            !.away_made_shots = 0, !.away_attempts = 0,
            !.recent_scoring_events = [home |-> << >>, away |-> << >>],
            !.did_reset = TRUE]

(* trading_v3.py lines 63-71 *)
update_momentum(s, points_scored, home_away) ==
  LET w == Append(s.recent_scoring_events[home_away], points_scored)
  IN [s EXCEPT !.recent_scoring_events[home_away] = IF Len(w) > 5 THEN Tail(w) ELSE w]

(* trading_v3.py lines 73-87 *)
compute_win_probability_v3(s) ==
  LET score_diff == s.home_score - s.away_score
      base_prob == 5000 + 500 * score_diff
      momentum_factor == 5000 + 500 * score_diff
      win_prob == (s.alpha * ((base_prob * (10000 + time_decay(s.time_remaining))) \div 10000)
                     + s.beta * momentum_factor) \div (s.alpha + s.beta)
  IN Min(Max(win_prob, 0), 10000)

(* trading_v3.py lines 89-110 *)
compute_trade_size_v3(s, win_prob) ==
  IF s.market_price <= 0 THEN 0
  ELSE LET edge == win_prob - s.market_price * 100
           max_shares_by_exposure ==
             IntDiv(Capital(s) * max_exposure_pct, 100 * s.market_price)
           scale == Max(0, Min(10000, 2 * Abs(edge)))
       IN Max(0, IntDiv(max_shares_by_exposure * scale, 10000))

(* trading_v3.py lines 113-116: sum(recent_home_points[-3:]) <= 1 *)
check_stop_loss(s) ==
  LET home == s.recent_scoring_events.home
      n == Len(home)
      last3 == SubSeq(home, Max(1, n - 2), n)
  IN Len(s.recent_scoring_events.away) >= 3 /\ Sum(last3) <= 1

(* trading_v3.py lines 153-155: the sentinel -1 is not None and is compared *)
Throttled_v3(s) == Abs(s.last_trade_time - s.time_remaining) < 5

(* trading_v3.py lines 134-219 *)
on_game_event_update_v3(s, e) ==
  LET s1 == UpdateGameState(s, e)
  IN IF Throttled_v3(s1) THEN [s1 EXCEPT !.path = "throttled"]
     ELSE LET s2 == [s1 EXCEPT !.last_trade_time = s1.time_remaining]
          IN IF e.event_type \in IgnoredTypes \cup {"TIMEOUT"} THEN [s2 EXCEPT !.path = "ignored"]
             ELSE LET scored == /\ e.event_type = "SCORE" /\ Points(e.shot_type) > 0
                                /\ e.home_away \in {"home", "away"}
                      s3 == IF scored
                            THEN LET m == update_momentum(s2, Points(e.shot_type), e.home_away)
                                 IN IF e.home_away = "home"
                                    THEN [m EXCEPT !.home_made_shots = @ + 1,
                                                   !.home_attempts = @ + 1]
                                    ELSE [m EXCEPT !.away_made_shots = @ + 1,
                                                   !.away_attempts = @ + 1]
                            ELSE IF e.event_type = "MISSED" /\ e.home_away = "home"
                                 THEN [s2 EXCEPT !.home_attempts = @ + 1]
                            ELSE IF e.event_type = "MISSED" /\ e.home_away = "away"
                                 THEN [s2 EXCEPT !.away_attempts = @ + 1]
                            ELSE s2
                      win_prob == compute_win_probability_v3(s3)
                      trade_qty == compute_trade_size_v3(s3, win_prob)
                  IN IF check_stop_loss(s3) /\ s3.position > 0
                     THEN [Emit(s3, "SELL", s3.position, "module")
                             EXCEPT !.position = 0, !.path = "stop_loss"]
                     ELSE LET s4 == IF win_prob > (s3.market_price + 1) * 100
                                    THEN [Emit(s3, "BUY", trade_qty, "module")
                                            EXCEPT !.position = @ + trade_qty, !.path = "buy"]
                                    ELSE IF win_prob < (s3.market_price - 1) * 100
                                    THEN [Emit(s3, "SELL", trade_qty, "module")
                                            EXCEPT !.position = @ - trade_qty, !.path = "sell"]
                                    ELSE [s3 EXCEPT !.path = "no_trade"]
                          IN IF e.event_type = "END_GAME" THEN reset_state_v3(s4) ELSE s4

LateTimes == {2400, 28, 3, 0}

LateEvents ==
  { MkEvent(k, sp, t) :
      k \in { Kind("SCORE", "home", "TWO_POINT"), Kind("SCORE", "away", "THREE_POINT"),
              Kind("NOTHING", "None", "None"), Kind("END_GAME", "None", "None") },
      sp \in ScorePairs,
      t \in {<<x>> : x \in LateTimes} \cup {None} }

(* trading_v3.py lines 44-47: __init__ calls reset_state *)
InitV3 ==
  /\ home_score = 0 /\ away_score = 0 /\ time_remaining = 2400
  /\ position = 0 /\ last_trade_time = -1 /\ market_price = 50
  /\ recent_scoring_events = [home |-> << >>, away |-> << >>]
  /\ home_made_shots = 0 /\ home_attempts = 0
  /\ away_made_shots = 0 /\ away_attempts = 0
  /\ capital = None /\ max_fav_price = 0 /\ trades = << >>
  /\ equity_curve = << >>
  /\ orders = << >> /\ path = "" /\ did_reset = FALSE
  /\ event = NoEvent /\ history = << >> /\ pushed = << >>
  /\ n_calls = 0 /\ pc = "live" /\ result = None /\ best_price = None

GameEventV3(e) ==
  /\ pc = "live"
  /\ n_calls < MaxEvents
  /\ FeedOK(e)
  /\ Store(on_game_event_update_v3(Self, e))
  /\ event' = e
  /\ n_calls' = n_calls + 1
  /\ UNCHANGED <<equity_curve, history, pushed, pc, result, best_price>>

NextV3 == \E e \in LateEvents : GameEventV3(e)

SpecV3 == InitV3 /\ [][NextV3]_vars

(* ---------------------------------------------------------------------- *)
(* Properties                                                              *)
(* ---------------------------------------------------------------------- *)
(* the ignorable set and the enumerated event types of the specification *)
SpecIgnorable == IgnoredTypes \cup {"TIMEOUT"}

RecognisedTypes == SpecIgnorable \cup
  {"SCORE", "MISSED", "REBOUND", "TURNOVER", "FOUL", "END_GAME"}

(* a step in which on_game_event_update ran; event' is the event it got *)
GameStep == n_calls' = n_calls + 1

EngineInitial ==
  /\ home_score = 0 /\ away_score = 0 /\ time_remaining = 2400
  /\ position = 0 /\ last_trade_time = -1 /\ market_price = 50
  /\ recent_scoring_events = << >>
  /\ home_made_shots = 0 /\ home_attempts = 0
  /\ away_made_shots = 0 /\ away_attempts = 0

(* C1: after on_game_event_update returns for any END_GAME event, throttled
   or not, every StrategyState field equals its initial value. *)
C1_EndGameAlwaysResets ==
  [][(GameStep /\ event'.event_type = "END_GAME") => EngineInitial']_vars

(* C2: in a backtest, once the engine has finished an event in which it
   emitted a normal-path BUY (SELL) of qty, capital has gone down (up) by
   market_price/100 * qty and position has gone up (down) by exactly qty. *)
C2_FillAppliedOnce ==
  [][(pc = "event" /\ pc' = "post" /\ path' \in {"buy", "sell"} /\ ~did_reset') =>
       LET o == orders'[1]
       IN IF o.side = "BUY"
          THEN /\ capital'[1] = capital[1] - market_price * o.qty
               /\ position' = position + o.qty
          ELSE /\ capital'[1] = capital[1] + market_price * o.qty
               /\ position' = position - o.qty]_vars

NonIncreasing(h) == \A i \in 1..(Len(h) - 1) : h[i].time >= h[i + 1].time

ClosePairs(h) ==
  { p \in (1..Len(h)) \X (1..Len(h)) :
      p[1] < p[2] /\ Abs(h[p[1]].time - h[p[2]].time) < cooldown_seconds }

(* C3 as stated: of two events of one game whose times differ by less than
   cooldown_seconds at most one, the earlier, reaches the decision step; the
   later emits no order and does not change last_decision_time. *)
C3_LaterAlwaysThrottled ==
  NonIncreasing(history) =>
    \A p \in ClosePairs(history) :
      /\ ~history[p[2]].decided
      /\ ~history[p[2]].ordered
      /\ ~history[p[2]].ltt_changed

(* C3 amended: of two such events at most one reaches the decision step, and
   when the earlier one passed the throttle the later one emits no order and
   does not change last_decision_time. *)
C3_AtMostOneDecision ==
  NonIncreasing(history) =>
    \A p \in ClosePairs(history) :
      /\ ~(history[p[1]].decided /\ history[p[2]].decided)
      /\ history[p[1]].passed =>
           /\ ~history[p[2]].passed
           /\ ~history[p[2]].ordered
           /\ ~history[p[2]].ltt_changed

C3_Witness ==
  /\ NonIncreasing(history)
  /\ \E p \in ClosePairs(history) :
       /\ history[p[1]].decided /\ history[p[1]].ordered
       /\ history[p[2]].type = "SCORE" /\ ~history[p[2]].passed

(* C4: every SCORE with a point-valued shot and a valid side pushes
   (side, points) and increments that side's made and attempt counters once,
   every MISSED with a valid side increments that side's attempt counter
   once, also when the event is throttled. *)
C4_ScoringAlwaysCounted ==
  [][GameStep =>
       LET e == event'
       IN /\ IsScoring(e) =>
               /\ recent_scoring_events' # << >>
               /\ recent_scoring_events'[Len(recent_scoring_events')]
                    = <<e.home_away, Points(e.shot_type)>>
               /\ IF e.home_away = "home"
                  THEN /\ home_made_shots' = home_made_shots + 1
                       /\ home_attempts' = home_attempts + 1
                       /\ UNCHANGED <<away_made_shots, away_attempts>>
                  ELSE /\ away_made_shots' = away_made_shots + 1
                       /\ away_attempts' = away_attempts + 1
                       /\ UNCHANGED <<home_made_shots, home_attempts>>
          /\ (e.event_type = "MISSED" /\ e.home_away = "home") =>
               /\ home_attempts' = home_attempts + 1
               /\ UNCHANGED <<home_made_shots, away_made_shots, away_attempts>>
          /\ (e.event_type = "MISSED" /\ e.home_away = "away") =>
               /\ away_attempts' = away_attempts + 1
               /\ UNCHANGED <<home_made_shots, home_attempts, away_made_shots>>]_vars

(* C5: every call of on_game_event_update, throttled and ignorable events
   included, overwrites home_score and away_score with the event's values
   and overwrites time_remaining iff the event carries a time; the values
   are observable unless the call ends in the END_GAME reset. *)
C5_ScoreTimeAlwaysUpdated ==
  [][(GameStep /\ ~did_reset') =>
       /\ home_score' = event'.home_score
       /\ away_score' = event'.away_score
       /\ time_remaining' = IF event'.time_seconds # None
                            THEN event'.time_seconds[1] ELSE time_remaining]_vars

C5_Witness ==
  /\ path = "throttled"
  /\ event.time_seconds = None
  /\ event.home_score = 3 /\ home_score = 3 /\ away_score = 1
  /\ time_remaining = 1200

(* C6: the window never holds more than recent_max_events entries, and once
   more than that many pairs have been pushed it holds exactly the most
   recently pushed ones in arrival order. *)
C6_WindowBounded ==
  /\ Len(recent_scoring_events) <= recent_max_events
  /\ Len(pushed) > recent_max_events =>
       recent_scoring_events
         = SubSeq(pushed, Len(pushed) - recent_max_events + 1, Len(pushed))

C6_Witness ==
  /\ Len(pushed) > recent_max_events
  /\ Len(recent_scoring_events) = recent_max_events
  /\ pushed[1] # pushed[Len(pushed)]

(* C7: an event whose type is in {NOTHING, START_PERIOD, END_PERIOD,
   SUBSTITUTION, UNKNOWN, TIMEOUT} never emits an order and never changes
   position, the scoring window or the made/attempt counters. *)
C7_IgnorableNeverTrades ==
  [][(GameStep /\ event'.event_type \in SpecIgnorable) =>
       /\ orders' = << >>
       /\ UNCHANGED <<position, recent_scoring_events, home_made_shots,
                      home_attempts, away_made_shots, away_attempts>>]_vars

(* C8: an event whose type is not one of the recognised categories still
   updates score and time and produces no decision: no order, position
   unchanged. *)
C8_UnrecognisedNeverTrades ==
  [][(GameStep /\ event'.event_type \notin RecognisedTypes) =>
       /\ home_score' = event'.home_score
       /\ away_score' = event'.away_score
       /\ orders' = << >>
       /\ position' = position]_vars

(* C9: when the run-based stop-loss triggers during an event, the engine
   emits exactly one order, of the direction opposite to the position's sign
   and of quantity |position|, sets position to 0, takes no normal-path
   order, and the stop-loss re-evaluated on the resulting state is false. *)
C9_StopLossClosesPosition ==
  [][(GameStep /\ path' \notin {"throttled", "ignored"}) =>
       LET w == UpdateScoring(Self, event').recent_scoring_events
           triggered == \/ position > 0 /\ 5 * RunNet(w) < -2 * RunNorm(w)
                        \/ position < 0 /\ 5 * RunNet(w) > 2 * RunNorm(w)
       IN triggered =>
            /\ orders' = <<[side |-> IF position > 0 THEN "SELL" ELSE "BUY",
                            qty |-> Abs(position)]>>
            /\ position' = 0
            /\ recent_scoring_events' = w
            /\ ~(\/ position' > 0 /\ 5 * RunNet(w) < -2 * RunNorm(w)
                 \/ position' < 0 /\ 5 * RunNet(w) > 2 * RunNorm(w))]_vars

C9_Witness ==
  /\ path = "stop_loss"
  /\ Len(orders) = 1 /\ orders[1].side = "BUY" /\ orders[1].qty > 0
  /\ position = 0

(* C10: an END_GAME event that passes the throttle resets all StrategyState
   after its decision, on every branch: stop-loss close, BUY, SELL, no trade. *)
C10_EndGameResetsAfterDecision ==
  [][(GameStep /\ event'.event_type = "END_GAME" /\ path' # "throttled") =>
       (did_reset' /\ EngineInitial')]_vars

(* C11: the engine emits at most one order intent per processed game event:
   zero or one call of place_market_order per on_game_event_update. *)
C11_AtMostOneOrder ==
  [][GameStep => Len(orders') <= 1]_vars

C11_Witness ==
  /\ path = "stop_loss"
  /\ Len(orders) = 1 /\ orders[1].side = "SELL"
  /\ event.event_type = "END_GAME"
  /\ compute_win_probability(Self) * 100 - market_price * 10000
       > dynamic_gap_threshold(Self)

(* the engine's state when it reaches the decision step of event e *)
AtDecision(e) == UpdateScoring(UpdateGameState(Self, e), e)

Sides(os) == { os[i].side : i \in 1..Len(os) }

(* C12: outside the stop-loss path, with diff = win_prob*100 - market_price
   and gap = the gap threshold: a BUY is emitted only if diff > gap, a SELL
   only if diff < -gap, and when -gap <= diff <= gap no order is emitted and
   the decision leaves position unchanged. *)
C12_GapDecidesDirection ==
  [][(GameStep /\ path' \notin {"throttled", "ignored", "stop_loss"}) =>
       LET s == AtDecision(event')
           diff == compute_win_probability(s) * 100 - market_price * 10000
           gap == dynamic_gap_threshold(s)
       IN /\ "BUY" \in Sides(orders') => diff > gap
          /\ "SELL" \in Sides(orders') => diff < -gap
          /\ (-gap <= diff /\ diff <= gap) =>
               /\ orders' = << >>
               /\ ~did_reset' => position' = position]_vars

C12_Witness ==
  /\ path = "no_trade" /\ ~did_reset
  /\ position > 0
  /\ compute_win_probability(Self) * 100 - market_price * 10000 < 0
  /\ compute_win_probability(Self) * 100 - market_price * 10000
       >= -dynamic_gap_threshold(Self)

(* C13: the quantity of every normal-path order is min(trade_size,
   exposure_cap) where, with M = floor(capital * max_exposure_pct /
   max(0.01, market_price/100)), the cap is max(0, M - max(0, position)) for
   a BUY and max(0, M - max(0, -position)) for a SELL; an order leaves only
   when that quantity is > 0. *)
C13_QuantityIsCappedSize ==
  [][(GameStep /\ path' \in {"buy", "sell", "buy_skipped", "sell_skipped"}) =>
       LET s == AtDecision(event')
           M == IntDiv(Capital(s) * max_exposure_pct, 100 * Max(1, market_price))
           cap == IF path' \in {"buy", "buy_skipped"}
                  THEN Max(0, M - Max(0, position))
                  ELSE Max(0, M - Max(0, -position))
           qty == Min(compute_trade_size(s, compute_win_probability(s)), cap)
       IN IF path' \in {"buy", "sell"}
          THEN /\ qty > 0
               /\ orders' = <<[side |-> IF path' = "buy" THEN "BUY" ELSE "SELL",
                               qty |-> qty]>>
          ELSE /\ qty <= 0
               /\ orders' = << >>]_vars

(* a BUY cut down by the cap: the shares already held use part of M *)
C13_Witness ==
  /\ path = "buy" /\ ~did_reset
  /\ Len(orders) = 1 /\ orders[1].qty > 0
  /\ position > orders[1].qty
  /\ position = max_shares_allowed(Self)
  /\ orders[1].qty < compute_trade_size(Self, compute_win_probability(Self))

(* C14: the probability estimate is within [0.01, 0.99] for any scores, any
   time_remaining >= 0, any scoring window, any made/attempt counters and
   any non-negative alpha and beta. *)
C14_EstimateClamped ==
  pc = "done" => (result[1].win_prob >= 100 /\ result[1].win_prob <= 9900)

C14_Witness ==
  /\ pc = "done"
  /\ away_score - home_score = 40
  /\ result[1].alpha = 20
  /\ result[1].win_prob = 100

ExampleCurve == <<100, 120, 90, 150, 60>>

(* C16 as stated: max_drawdown applied to [100, 120, 90, 150, 60] returns
   0.5, that is (120 - 60) / 120. *)
C16_ExampleIsHalf ==
  (pc = "done" /\ equity_curve = ExampleCurve) =>
    result[1].n * 2 = result[1].d * 1

(* C16 amended: max_drawdown applied to [100, 120, 90, 150, 60] returns
   0.6, that is (150 - 60) / 150: the peak before the last value is 150. *)
C16_ExampleIsThreeFifths ==
  (pc = "done" /\ equity_curve = ExampleCurve) =>
    result[1].n * 5 = result[1].d * 3

C16_Witness ==
  /\ pc = "done" /\ equity_curve = ExampleCurve
  /\ result[1].d = 150

(* the running maximum of the curve up to and including index i *)
RunningPeak(curve, i) ==
  CHOOSE m \in { curve[j] : j \in 1..i } : \A j \in 1..i : curve[j] <= m

(* C17: for every equity curve max_drawdown returns the maximum over the
   indices i with peak_i > 0 of (peak_i - equity_i) / peak_i, peak_i being
   the running maximum up to and including i, and 0 when the curve is empty
   or no peak exceeds 0. *)
C17_DrawdownIsMaxOverPeaks ==
  pc = "done" =>
    LET r == result[1]
        Counted == { i \in 1..Len(equity_curve) : RunningPeak(equity_curve, i) > 0 }
        AtIndex(i) == (RunningPeak(equity_curve, i) - equity_curve[i]) * r.d
                        = r.n * RunningPeak(equity_curve, i)
        Below(i) == (RunningPeak(equity_curve, i) - equity_curve[i]) * r.d
                      <= r.n * RunningPeak(equity_curve, i)
    IN /\ r.d > 0
       /\ \A i \in Counted : Below(i)
       /\ IF Counted = {} THEN r.n = 0 ELSE \E i \in Counted : AtIndex(i)

(* the deepest drawdown lies in the middle of the curve, under a peak that
   is not the first value, and the curve starts below zero *)
C17_Witness ==
  /\ pc = "done"
  /\ equity_curve = <<-50, 100, 120, 60, 150>>
  /\ result[1].n * 2 = result[1].d

(* C15: a backtest over an event sequence without scoring events, at a
   constant market_price, has an equity curve whose every entry equals
   capital_start, and pnl = 0, max_drawdown = 0, sharpe = 0. *)
C15_QuietBacktestIsFlat ==
  /\ \A i \in 1..Len(equity_curve) : equity_curve[i] = capital_start
  /\ pc = "done" =>
       /\ result[1].pnl = 0
       /\ result[1].max_drawdown.n = 0
       /\ result[1].sharpe = 0

(* a step in which the trailing-stop check and the equity record ran *)
PostStep == pc = "post" /\ pc' = "event"

(* C18: after the post-event trailing-stop check it never holds that
   position > 0 and market_price < max_favorable_price * (1 -
   trailing_stop_pct); when that held before the check the whole position
   was sold at the current price, leaving position = 0 and
   max_favorable_price = market_price; with position <= 0 the check emits no
   order. *)
C18_TrailingStopClosesLong ==
  [][PostStep =>
       LET retreated == /\ position > 0
                        /\ market_price * 100 < max_fav_price * (100 - trailing_stop_pct)
       IN /\ ~(/\ position' > 0
               /\ market_price' * 100 < max_fav_price' * (100 - trailing_stop_pct))
          /\ retreated =>
               /\ position' = 0
               /\ max_fav_price' = market_price
               /\ market_price' = market_price
               /\ capital'[1] = capital[1] + market_price * position
               /\ Len(trades') = Len(trades) + 1
               /\ trades'[Len(trades')].side = "SELL"
               /\ trades'[Len(trades')].qty = position
               /\ trades'[Len(trades')].price = market_price
          /\ position <= 0 => trades' = trades]_vars

(* the engine bought during the event at the fallen price and the trailing
   stop then sold everything *)
C18_Witness ==
  /\ pc = "event" /\ path = "buy" /\ ~did_reset
  /\ position = 0
  /\ trades[Len(trades)].side = "SELL"
  /\ market_price = 40 /\ max_fav_price = 40

(* C19: in a backtest, whenever position > 0, max_favorable_price equals the
   highest market_price observed since the position was last flat or short,
   prices that changed between two fills included. *)
C19_PeakTracksBestPrice ==
  position > 0 => (best_price # None /\ max_fav_price = best_price[1])

(* C20: the equity curve has exactly one entry per processed event, in event
   order; the i-th entry is capital + position * market_price / 100 as they
   stand after event i's engine processing and trailing-stop check;
   final_value is the last entry (capital_start for an empty event
   sequence) and pnl = final_value - capital_start. *)
C20_EquityCurvePerEvent ==
  [][/\ IF PostStep
        THEN equity_curve' = Append(equity_curve, capital'[1] + position' * market_price')
        ELSE equity_curve' = equity_curve
     /\ pc' \in {"event", "done"} => Len(equity_curve') = n_calls'
     /\ pc' = "done" =>
          LET final_value == IF n_calls' = 0 THEN capital_start
                             ELSE equity_curve'[Len(equity_curve')]
          IN /\ result'[1].final_value = final_value
             /\ result'[1].pnl = final_value - capital_start]_vars

C20_Witness ==
  /\ pc = "done"
  /\ Len(equity_curve) >= 2 /\ n_calls = Len(equity_curve)
  /\ equity_curve[1] # equity_curve[2]
  /\ position # 0
  /\ result[1].pnl = equity_curve[Len(equity_curve)] - capital_start
  /\ result[1].pnl # 0

(* a step in which on_orderbook_update ran *)
OrderbookStep == n_calls' = n_calls /\ market_price' # market_price

(* C21: on_orderbook_update overwrites market_price with the supplied price
   and does nothing else: no order, and position, scores, time_remaining,
   last_decision_time, the scoring window and the made/attempt counters are
   unchanged. *)
C21_OrderbookOnlySetsPrice ==
  [][OrderbookStep =>
       /\ market_price' \in Prices
       /\ UNCHANGED <<orders, position, home_score, away_score, time_remaining,
                      last_trade_time, recent_scoring_events, home_made_shots,
                      home_attempts, away_made_shots, away_attempts>>]_vars

(* the price fell to 0 after an event that bought: at 0 the engine itself
   would have skipped the order *)
C21_Witness ==
  /\ market_price = 0
  /\ path = "buy" /\ ~did_reset
  /\ position > 0 /\ Len(orders) = 1

RECURSIVE NetFilled(_)
NetFilled(fills) ==
  IF fills = << >> THEN 0
  ELSE (IF fills[1].side = "BUY" THEN fills[1].qty ELSE -fills[1].qty)
         + NetFilled(Tail(fills))

(* C22: against a venue that confirms each emitted order with exactly one
   on_account_update of the same side and quantity, the position after all
   confirmations have been delivered is the net signed sum of the filled
   quantities, buys minus sells. *)
C22_FillsReconcilePosition ==
  pc = "live" => position = NetFilled(trades)

(* two successive evaluations with the same parameters *)
SameGapParameters ==
  /\ result # None /\ result' # None
  /\ result'[1].base_gap = result[1].base_gap
  /\ result'[1].min_gap = result[1].min_gap

(* C23: for fixed base_gap >= min_gap >= 0 the gap threshold does not
   increase as time_remaining decreases from 2400 to 30; below 30 it is
   max(min_gap / 4, threshold / 4), which is strictly below the value at
   time_remaining = 30 whenever base_gap > 0. *)
C23_GapFallsWithClock ==
  [][SameGapParameters =>
       LET a == result[1]
           b == result'[1]
           threshold == Max(b.min_gap, (b.base_gap * (2400 + Max(b.time_remaining, 0))) \div 2400)
       IN /\ (a.time_remaining <= 2400 /\ b.time_remaining >= 30
                 /\ b.time_remaining <= a.time_remaining) => b.gap <= a.gap
          /\ b.time_remaining < 30 =>
                /\ b.gap = Max(b.min_gap \div 4, threshold \div 4)
                /\ (a.time_remaining = 30 /\ b.base_gap > 0) => b.gap < a.gap]_vars

C23_Witness ==
  /\ pc = "gap" /\ result # None
  /\ result[1].base_gap = 10000 /\ result[1].min_gap = 5000
  /\ result[1].time_remaining = 28
  /\ result[1].gap = 2529

(* C24: on a fresh engine fed SCORE events that all carry shot_type
   FREE_THROW, made shots equal attempts on both sides after every event,
   throttled or not. *)
C24_FreeThrowsAllMade ==
  /\ home_made_shots = home_attempts
  /\ away_made_shots = away_attempts

C24_Witness ==
  /\ n_calls = 3 /\ path = "throttled"
  /\ event.shot_type = "FREE_THROW" /\ event.home_away = "away"
  /\ home_made_shots = 1 /\ home_attempts = 1
  /\ away_made_shots = 1 /\ away_attempts = 1

(* C25: with market_price <= 0 the trade size is 0 and nothing is raised;
   the event emits no BUY or SELL on the gap / sizing path and that path
   leaves the position as it was. *)
C25_NoPriceNoTrade ==
  [][(GameStep /\ market_price <= 0) =>
       /\ compute_trade_size(AtDecision(event'), compute_win_probability(AtDecision(event'))) = 0
       /\ path' \notin {"buy", "sell"}
       /\ path' # "stop_loss" => orders' = << >>
       /\ (path' \in {"buy_skipped", "sell_skipped", "no_trade"} /\ ~did_reset')
             => position' = position]_vars

C25_Witness ==
  /\ market_price = -10
  /\ path = "buy_skipped" /\ ~did_reset
  /\ orders = << >> /\ position > 0

(* a home SCORE with a point-valued shot type and the home side ahead *)
HomeScoreAhead(e) ==
  /\ e.event_type = "SCORE" /\ e.home_away = "home"
  /\ e.shot_type \in {"FREE_THROW", "TWO_POINT", "LAYUP", "DUNK", "THREE_POINT"}
  /\ e.home_score > e.away_score

(* C26: on a fresh engine with default parameters and market_price = 50, a
   first event that is a home SCORE with a point-valued shot type and
   home_score > away_score is not throttled, gives home_made_shots = 1 and
   home_attempts = 1, a win probability strictly above 0.5, and a decision
   that is BUY or no trade, never SELL. *)
C26_OpeningHomeScore ==
  [][(GameStep /\ n_calls = 0 /\ EngineInitial /\ HomeScoreAhead(event')) =>
       /\ path' \in {"buy", "buy_skipped", "no_trade"}
       /\ home_made_shots' = 1 /\ home_attempts' = 1
       /\ compute_win_probability(AtDecision(event')) > 5000
       /\ "SELL" \notin Sides(orders')]_vars

C26_Witness ==
  /\ n_calls = 1
  /\ event = MkEvent(Kind("SCORE", "home", "TWO_POINT"), <<2, 0>>, <<2390>>)
  /\ path = "buy" /\ Sides(orders) = {"BUY"}
  /\ home_made_shots = 1 /\ home_attempts = 1
  /\ position > 0

(* C27: last_decision_time is set before the ignore list: an ignorable event
   that passes the throttle sets last_decision_time to its time_remaining
   without a decision being evaluated, and a SCORE arriving less than
   cooldown_seconds later is throttled and emits no order. *)
C27_IgnorableStampsThrottle ==
  NonIncreasing(history) =>
    \A p \in ClosePairs(history) :
      (/\ history[p[1]].type \in IgnoredTypes
       /\ history[p[1]].passed
       /\ history[p[2]].type = "SCORE")
        => /\ ~history[p[1]].decided /\ ~history[p[1]].ordered
           /\ history[p[1]].ltt_changed
           /\ ~history[p[2]].passed /\ ~history[p[2]].ordered
           /\ p[2] = Len(history) => last_trade_time = history[p[1]].time

C27_Witness ==
  /\ Len(history) = 2
  /\ history[1].type = "NOTHING" /\ history[1].passed /\ history[1].time = 2400
  /\ history[2].type = "SCORE" /\ history[2].time = 2398 /\ ~history[2].passed
  /\ last_trade_time = 2400 /\ orders = << >>

(* C28: in a backtest, immediately after an event in which the engine
   emitted a normal-path BUY the position is at most
   M = floor(capital * max_exposure_pct / max(0.01, market_price / 100)),
   taken from the capital and price at the moment of the decision; after a
   normal-path SELL, -position is at most M. *)
C28_BacktestExposureBound ==
  [][(pc = "event" /\ pc' = "post" /\ ~did_reset') =>
       /\ path' = "buy" => position' <= max_shares_allowed(Self)
       /\ path' = "sell" => -position' <= max_shares_allowed(Self)]_vars

(* C29: in the strategy whose reset_state leaves last_decision_time at the
   unset sentinel, the first game event on a freshly constructed or freshly
   reset engine is never throttled, whatever its time_remaining, values
   below the cooldown included. *)
C29_FirstEventNeverThrottled ==
  [][(GameStep /\ last_trade_time = -1) => path' # "throttled"]_vars

CountersInRange ==
  /\ 0 <= home_made_shots /\ home_made_shots <= home_attempts
  /\ 0 <= away_made_shots /\ away_made_shots <= away_attempts

(* C30: in every reachable state 0 <= made_shots <= attempts on each side,
   and between two resets none of the four counters decreases. *)
C30_CountersBoundedMonotone ==
  [][/\ CountersInRange /\ CountersInRange'
     /\ ~(GameStep /\ did_reset') =>
          /\ home_made_shots' >= home_made_shots
          /\ home_attempts' >= home_attempts
          /\ away_made_shots' >= away_made_shots
          /\ away_attempts' >= away_attempts]_vars

C30_Witness ==
  /\ home_made_shots = 1 /\ home_attempts = 2
  /\ away_made_shots = 1 /\ away_attempts = 1
  /\ ~did_reset

(* a step in which reset_state was called on the bot between two events *)
ResetStep == pc = "event" /\ pc' = "event" /\ n_calls' = n_calls

(* the END_GAME event with its type changed: the same call without the reset *)
WithoutReset(e) == [e EXCEPT !.event_type = "FOUL"]

(* C31: the state reset, on END_GAME or by reset_state itself, changes only
   StrategyState fields: in a backtest it emits no order, appends nothing to
   the trade log, and leaves capital, max_fav_price and the hyperparameters
   unchanged; an open position is zeroed without a closing fill. *)
C31_ResetFrame ==
  [][/\ (pc = "event" /\ pc' = "post" /\ did_reset') =>
          LET r == on_game_event_update(Self, WithoutReset(event'), "local")
          IN /\ orders' = r.orders /\ trades' = r.trades
             /\ capital' = r.capital /\ max_fav_price' = r.max_fav_price
             /\ EngineInitial'
     /\ ResetStep =>
          /\ orders' = << >> /\ trades' = trades
          /\ capital' = capital /\ max_fav_price' = max_fav_price
          /\ EngineInitial'
     /\ LET r == reset_state(Self)
        IN /\ r.alpha = alpha /\ r.beta = beta
           /\ r.base_gap = base_gap /\ r.min_gap = min_gap]_vars

C31_Witness ==
  /\ pc = "post" /\ did_reset /\ event.event_type = "END_GAME"
  /\ trades # << >> /\ trades[Len(trades)].position # 0
  /\ position = 0
  /\ capital # <<capital_start>>

====
